---- MODULE Spec2Model ----
(***************************************************************************)
(* Finite-field arithmetic (algebra/src/finite_field.rs), the polynomial   *)
(* ring (algebra/src/polynomial.rs), the Rescue-like hash                  *)
(* (crypto-primitives/src/hash.rs) and the Merkle tree                     *)
(* (crypto-primitives/src/merkle_tree.rs) of from_zk_to_stark.             *)
(*                                                                         *)
(* FieldSize is i128 in the source.  All values of this model stay far     *)
(* below 2^31, so no i128 operation of the model overflows; the model says *)
(* nothing about operands near the i128 limits.                            *)
(***************************************************************************)
EXTENDS Integers, Sequences, FiniteSets, TLC

VARIABLES x, y, last,
          hasher, input, status, leafs, levels, commits, root, proof, check,
          pa, pb, plast, pc, dividend, result_coefficients, iterations

vars == <<x, y, last, hasher, input, status, leafs, levels, commits, root, proof, check,
          pa, pb, plast, pc, dividend, result_coefficients, iterations>>

fieldVars == <<x, y, last>>
merkleVars == <<hasher, input, status, leafs, levels, commits, root, proof, check>>
polyVars == <<pa, pb, plast, pc, dividend, result_coefficients, iterations>>

(***************************************************************************)
(* Bounds                                                                  *)
(***************************************************************************)
\* FiniteField::element is called with values in -MaxValue..MaxValue
MaxValue == 4
\* raw leaf values are drawn from 0..MaxRaw
MaxRaw == 1
\* MerkleTree::new is called with 0..MaxLeafs raw leaves
MaxLeafs == 4
\* commit() is called at most MaxCommits times on one tree
MaxCommits == 2
\* from_slice is called with at most MaxCoeffs coefficients, and a register
\* keeps at most MaxCoeffs coefficients
MaxCoeffs == 2
\* from_slice is called with values in -1..MaxCoeffValue
MaxCoeffValue == 2
\* the loop of Div is followed for at most MaxIterations iterations
MaxIterations == 5

(***************************************************************************)
(* Rust integer arithmetic on i128                                         *)
(***************************************************************************)
Abs(n) == IF n < 0 THEN -n ELSE n

\* `/` on i128: truncates toward zero
TruncDiv(a, b) ==
    LET q == Abs(a) \div Abs(b)
    IN  IF (a < 0) # (b < 0) THEN -q ELSE q

\* `%` on i128: the remainder has the sign of the dividend
TruncRem(a, b) == a - b * TruncDiv(a, b)

\* i128::rem_euclid: the remainder is in [0, |b|)
rem_euclid(a, b) ==
    LET r == TruncRem(a, b)
    IN  IF r < 0 THEN r + Abs(b) ELSE r

RECURSIVE BitAnd(_, _)
\* `&` on usize
BitAnd(a, b) ==
    IF a = 0 \/ b = 0 THEN 0
    ELSE (a % 2) * (b % 2) + 2 * BitAnd(a \div 2, b \div 2)

RECURSIVE Shl1(_)
\* 1 << n
Shl1(n) == IF n = 0 THEN 1 ELSE 2 * Shl1(n - 1)

(***************************************************************************)
(* FiniteField and FieldElement                                            *)
(***************************************************************************)
\* a failed assertion (panic) of the operation
Panic == [panic |-> TRUE]

\* Rc<FiniteField>: rc is the identity of the allocation the Rc points to
FiniteField_new(rc, prime, g) ==
    IF g = 0 THEN Panic ELSE [rc |-> rc, prime |-> prime, generator |-> g]

\* Rc::ptr_eq
ptr_eq(f, g) == f.rc = g.rc

\* #[derive(PartialEq)] on FiniteField: compares prime and generator
field_eq(f, g) == f.prime = g.prime /\ f.generator = g.generator

FieldElement(value, ff) == [element |-> value, finite_field |-> ff]

element(ff, value) == FieldElement(value, ff)

zero(ff) == element(ff, 0)

one(ff) == element(ff, 1)

abs(a) ==
    LET value == rem_euclid(a.element, a.finite_field.prime)
    IN  IF a.element < 0
        THEN FieldElement(value + a.finite_field.prime, a.finite_field)
        ELSE FieldElement(value, a.finite_field)

eq(a, b) ==
    IF a.finite_field.prime # b.finite_field.prime
    THEN FALSE
    ELSE TruncRem(a.element, a.finite_field.prime)
            = TruncRem(b.element, a.finite_field.prime)

add(a, b) ==
    IF ~ptr_eq(a.finite_field, b.finite_field) THEN Panic
    ELSE abs(FieldElement(a.element + b.element, a.finite_field))

add_ref(a, b) ==
    IF ~ptr_eq(a.finite_field, b.finite_field) THEN Panic
    ELSE abs(FieldElement(a.element + b.element, a.finite_field))

add_assign(a, b) ==
    IF ~field_eq(a.finite_field, b.finite_field) THEN Panic
    ELSE abs(FieldElement(a.element + b.element, a.finite_field))

sub(a, b) ==
    IF ~ptr_eq(a.finite_field, b.finite_field) THEN Panic
    ELSE abs(FieldElement(a.element - b.element, a.finite_field))

sub_ref(a, b) ==
    IF ~ptr_eq(a.finite_field, b.finite_field) THEN Panic
    ELSE abs(FieldElement(a.element - b.element, a.finite_field))

sub_assign(a, b) ==
    abs(FieldElement(TruncRem(a.element - b.element, a.finite_field.prime),
                     a.finite_field))

mul(a, b) ==
    IF ~field_eq(a.finite_field, b.finite_field) THEN Panic
    ELSE abs(FieldElement(abs(a).element * abs(b).element, a.finite_field))

mul_ref(a, b) ==
    IF ~field_eq(a.finite_field, b.finite_field) THEN Panic
    ELSE abs(FieldElement(abs(a).element * abs(b).element, a.finite_field))

neg(a) == FieldElement(a.finite_field.prime - a.element, a.finite_field)

RECURSIVE extended_euclidean(_, _)
\* returns <<gcd, x, y>>
extended_euclidean(a, b) ==
    IF a = 0 THEN <<b, 0, 1>>
    ELSE LET r == extended_euclidean(TruncRem(b, a), a)
         IN  <<r[1], r[3] - TruncDiv(b, a) * r[2], r[2]>>

inverse(a) ==
    LET xgcd == extended_euclidean(a.element, a.finite_field.prime)
        inv == IF xgcd[2] < 0
               THEN a.finite_field.prime + xgcd[2]
               ELSE Abs(xgcd[2])
    IN  abs(FieldElement(TruncRem(inv, a.finite_field.prime), a.finite_field))

div(a, b) ==
    IF ~field_eq(a.finite_field, b.finite_field) THEN Panic
    ELSE IF eq(b, zero(a.finite_field)) THEN Panic
    ELSE mul(a, inverse(b))

div_ref(a, b) ==
    IF ~field_eq(a.finite_field, b.finite_field) THEN Panic
    ELSE IF eq(b, zero(a.finite_field)) THEN Panic
    ELSE mul_ref(a, inverse(b))

value(a) == abs(a).element

RECURSIVE pow_loop(_, _)
\* the body of the for loop of pow, run n more times
pow_loop(result, n) ==
    IF n <= 0 THEN result ELSE pow_loop(mul_ref(result, result), n - 1)

pow(a, e) == pow_loop(a, e.element)

(***************************************************************************)
(* The field calculator: two registers x and y holding FieldElements, one  *)
(* action per operation of FieldElement.  x receives the result (x = x op  *)
(* y), as a caller chaining operations does; a panicking operation leaves  *)
(* the registers alone.  last records the operation, its operands and what *)
(* it returned.                                                            *)
(***************************************************************************)
\* the fields of the callers: two allocations of the same field, and another field
FieldChoices ==
    { FiniteField_new(1, 5, 2), FiniteField_new(2, 5, 2), FiniteField_new(3, 7, 3) }

ElementChoices ==
    { element(ff, v) : ff \in FieldChoices, v \in (-MaxValue)..MaxValue }

Outcome(op, a, b, res) == [op |-> op, a |-> a, b |-> b, res |-> res]

FieldInit ==
    /\ x \in { zero(ff) : ff \in FieldChoices }
    /\ y = x
    /\ last = Outcome("element", x, x, x)

\* x = x op y: the result goes to x, or nowhere when the operation panics
Store(res) ==
    /\ x' = IF res = Panic THEN x ELSE res
    /\ y' = y
    /\ UNCHANGED <<merkleVars, polyVars>>

Element ==
    \E e \in ElementChoices, r \in {"x", "y"} :
        /\ x' = IF r = "x" THEN e ELSE x
        /\ y' = IF r = "y" THEN e ELSE y
        /\ last' = Outcome("element", e, e, e)
        /\ UNCHANGED <<merkleVars, polyVars>>

Eq ==
    /\ last' = Outcome("eq", x, y, eq(x, y))
    /\ UNCHANGED <<x, y>>
    /\ UNCHANGED <<merkleVars, polyVars>>

Add ==
    /\ last' = Outcome("add", x, y, add(x, y))
    /\ Store(add(x, y))

AddRef ==
    /\ last' = Outcome("add_ref", x, y, add_ref(x, y))
    /\ Store(add_ref(x, y))

AddAssign ==
    /\ last' = Outcome("add_assign", x, y, add_assign(x, y))
    /\ Store(add_assign(x, y))

Sub ==
    /\ last' = Outcome("sub", x, y, sub(x, y))
    /\ Store(sub(x, y))

SubRef ==
    /\ last' = Outcome("sub_ref", x, y, sub_ref(x, y))
    /\ Store(sub_ref(x, y))

SubAssign ==
    /\ last' = Outcome("sub_assign", x, y, sub_assign(x, y))
    /\ Store(sub_assign(x, y))

Mul ==
    /\ last' = Outcome("mul", x, y, mul(x, y))
    /\ Store(mul(x, y))

MulRef ==
    /\ last' = Outcome("mul_ref", x, y, mul_ref(x, y))
    /\ Store(mul_ref(x, y))

Div ==
    /\ last' = Outcome("div", x, y, div(x, y))
    /\ Store(div(x, y))

DivRef ==
    /\ last' = Outcome("div_ref", x, y, div_ref(x, y))
    /\ Store(div_ref(x, y))

Neg ==
    /\ last' = Outcome("neg", x, y, neg(x))
    /\ Store(neg(x))

Inverse ==
    /\ last' = Outcome("inverse", x, y, inverse(x))
    /\ Store(inverse(x))

Pow ==
    /\ last' = Outcome("pow", x, y, pow(x, y))
    /\ Store(pow(x, y))

FieldNext ==
    \/ Element \/ Eq
    \/ Add \/ AddRef \/ AddAssign
    \/ Sub \/ SubRef \/ SubAssign
    \/ Mul \/ MulRef
    \/ Div \/ DivRef
    \/ Neg \/ Inverse \/ Pow

(***************************************************************************)
(* Results of the Merkle operations                                        *)
(***************************************************************************)
\* Option::Some
Some(v) == [some |-> v]

\* Option::None
None == [none |-> TRUE]

\* a returned bool
Ret(b) == [ret |-> b]

(***************************************************************************)
(* RescueHash                                                              *)
(***************************************************************************)
\* RescueHash::new; mds_matrix is a sequence of rows, constants a sequence
\* (the source's constants[k] is constants[k + 1] here)
RescueHash_new(finite_field, rate, capacity, alpha, mds_matrix, constants) ==
    IF value(alpha) = 0 THEN Panic
    ELSE IF TruncRem(finite_field.prime - 1, value(alpha)) = 0 THEN Panic
    ELSE [ alpha |-> alpha, alpha_inv |-> inverse(alpha),
           finite_field |-> finite_field, rate |-> rate, capacity |-> capacity,
           mds_matrix |-> mds_matrix, constants |-> constants ]

RECURSIVE mds_row(_, _, _, _)
\* temp[i] after the inner loop has run for the first j columns
mds_row(h, state, i, j) ==
    IF j = 0 THEN zero(h.finite_field)
    ELSE add_ref(mds_row(h, state, i, j - 1),
                 mul_ref(h.mds_matrix[i][j], state[j]))

\* one round: temp = mds_matrix * state, then state[i] = temp[i] + constants[..]
hash_round(h, state) ==
    LET state_len == h.rate + h.capacity
        temp == [i \in 1..state_len |-> mds_row(h, state, i, state_len)]
    IN  [i \in 1..Len(state) |->
            add_ref(temp[i], abs(h.constants[2 * h.rate * state_len + i]))]

\* Hasher::hash of RescueHash.  The state is [value, 0 * state_len], two
\* entries whatever rate and capacity are; the two state.map(..pow..) calls
\* build a new array that is dropped, so they do not change the state.
hash(h, v) ==
    LET state_len == h.rate + h.capacity
        t == <<mul(zero(h.finite_field), element(h.finite_field, state_len))>>
        state == <<v>> \o t
        sbox == [i \in 1..Len(state) |-> pow(state[i], h.alpha)]
        round1 == hash_round(h, state)
        sbox_inv == [i \in 1..Len(state) |-> pow(round1[i], h.alpha_inv)]
        round2 == hash_round(h, round1)
    IN  IF state_len # Len(state) THEN Panic
        ELSE IF 2 * h.rate * state_len + Len(state) > Len(h.constants) THEN Panic
        ELSE round2[1]

\* the field the hasher is built over (hash.rs tests: prime 97, generator 1)
HasherField == FiniteField_new(10, 97, 1)

\* what random_element() returned to the caller building the hasher: four
\* entries of the matrix and the value all constants are filled with
RandomDraws == { <<2, 3, 1, 4, 6>>, <<-5, 1, 7, 100, -3>> }

\* RescueHash::new(field, 1, 1, alpha = 5, 2x2 matrix, constants) as the
\* callers in hash.rs build it; constants holds the six entries hash can index
HasherOf(draws) ==
    RescueHash_new(HasherField, 1, 1, element(HasherField, 5),
        << <<element(HasherField, draws[1]), element(HasherField, draws[2])>>,
           <<element(HasherField, draws[3]), element(HasherField, draws[4])>> >>,
        [k \in 1..6 |-> element(HasherField, draws[5])])

HasherChoices == { HasherOf(d) : d \in RandomDraws }

\* the field of the caller who builds the tree (a separate allocation)
CallerField == FiniteField_new(11, 97, 1)

(***************************************************************************)
(* MerkleTree                                                              *)
(***************************************************************************)
\* new without its second assertion
new_ok_no_power_check(leafs_len) == leafs_len # 0

\* the two assertions of MerkleTree::new
new_ok(leafs_len) ==
    /\ leafs_len # 0
    /\ BitAnd(leafs_len, leafs_len - 1) = 0

\* the leafs of the tree MerkleTree::new builds
new_leafs(h, raw) == [i \in 1..Len(raw) |-> hash(h, raw[i])]

\* commit pairing each entry with its right neighbour instead of stepping by two
commit_parents_sliding(h, curr_level) ==
    [m \in 1..(Len(curr_level) \div 2) |->
        hash(h, add_ref(curr_level[m], curr_level[m + 1]))]

\* one level of commit: odd_leafs zipped with even_leafs, hashed pairwise
commit_parents(h, curr_level) ==
    LET odd_leafs == [m \in 1..((Len(curr_level) + 1) \div 2) |-> curr_level[2 * m - 1]]
        even_leafs == [m \in 1..(Len(curr_level) \div 2) |-> curr_level[2 * m]]
        n == IF Len(odd_leafs) < Len(even_leafs) THEN Len(odd_leafs) ELSE Len(even_leafs)
    IN  [m \in 1..n |-> hash(h, add_ref(odd_leafs[m], even_leafs[m]))]

RECURSIVE commit_loop(_, _, _)
\* the while loop of commit: returns the levels and the returned element
commit_loop(h, curr_level, lvls) ==
    IF Len(curr_level) > 1
    THEN LET parents == commit_parents(h, curr_level)
         IN  commit_loop(h, parents, Append(lvls, parents))
    ELSE [levels |-> lvls, ret |-> curr_level[1]]

commit(h, lfs, lvls) == commit_loop(h, lfs, lvls)

\* Iterator::position(|x| *x == e): the first index (from 1) or 0
position(level, e) ==
    LET hits == { i \in 1..Len(level) : eq(level[i], e) }
    IN  IF hits = {} THEN 0 ELSE CHOOSE i \in hits : \A k \in hits : i <= k

RECURSIVE prove_loop(_, _, _, _, _)
\* the while loop of prove; current_level_index counts from 1 here
prove_loop(h, lvls, current_level_index, result, e) ==
    IF current_level_index > Len(lvls) THEN Some(result)
    ELSE LET current_level == lvls[current_level_index]
         IN  IF Len(current_level) = 1
             THEN IF eq(e, current_level[1])
                  THEN Some(Append(result, e))
                  ELSE Panic
             ELSE LET element_index == position(current_level, e) - 1
                  IN  IF element_index < 0 THEN None
                      ELSE IF element_index % 2 = 0
                              /\ element_index + 2 > Len(current_level)
                      THEN Panic  \* current_level.index(element_index + 1)
                      ELSE IF element_index % 2 = 0
                      THEN LET sibling == current_level[element_index + 2]
                           IN  prove_loop(h, lvls, current_level_index + 1,
                                          result \o <<e, sibling>>,
                                          hash(h, add(sibling, e)))
                      ELSE LET sibling == current_level[element_index]
                           IN  prove_loop(h, lvls, current_level_index + 1,
                                          result \o <<sibling, e>>,
                                          hash(h, add(sibling, e)))

prove(h, lvls, e) == prove_loop(h, lvls, 1, <<>>, e)

RECURSIVE verify(_, _, _, _, _)
verify(h, r, index, path, leaf) ==
    IF ~(index < Shl1(Len(path))) THEN Panic
    ELSE IF Len(path) = 1
    THEN IF index = 0
         THEN Ret(eq(r, hash(h, add(leaf, path[1]))))
         ELSE Ret(eq(r, hash(h, add(path[1], leaf))))
    ELSE IF Len(path) = 0 THEN Panic
    ELSE IF index % 2 = 0
         THEN verify(h, r, index \div 2, Tail(path), hash(h, add(leaf, path[1])))
         ELSE verify(h, r, index \div 2, Tail(path), hash(h, add(path[1], leaf)))

(***************************************************************************)
(* The Merkle tree machine: new, then commit, prove and verify.  proof     *)
(* records the last prove call and check the verify call made on the tree  *)
(* since its last commit, each with its arguments and what it returned.    *)
(* prove and verify only read the tree, so one recorded verify per commit  *)
(* reaches every tree state and every query on it; a commit starts over.   *)
(***************************************************************************)
RawLeafChoices ==
    UNION { [1..n -> { element(CallerField, v) : v \in 0..MaxRaw }] : n \in 0..MaxLeafs }

\* every element stored in some level
ElementsOf(lvls) == UNION { { lvls[j][m] : m \in 1..Len(lvls[j]) } : j \in 1..Len(lvls) }

\* the elements callers ask a proof for: the stored ones and unhashed raw values
QueryChoices ==
    ElementsOf(levels) \cup { element(hasher.finite_field, v) : v \in 0..MaxRaw }

\* the leaves callers verify: hashed leaves and one unhashed raw value
LeafChoices == ElementsOf(<<leafs>>) \cup { element(hasher.finite_field, 0) }

\* the paths callers verify: before any prove call each hashed leaf as the
\* one-entry path of a sibling, after one the proof it returned
PathChoices ==
    IF proof = None THEN { <<e>> : e \in ElementsOf(<<leafs>>) }
    ELSE IF proof.res # Panic /\ proof.res # None THEN {proof.res.some}
    ELSE {}

\* the indexes callers verify: those of the leaves and the first one past them
IndexChoices == 0..Len(leafs)

MerkleInit ==
    /\ hasher \in HasherChoices
    /\ input = <<>>
    /\ status = "start"
    /\ leafs = <<>>
    /\ levels = <<>>
    /\ commits = 0
    /\ root = None
    /\ proof = None
    /\ check = None

New ==
    /\ status = "start"
    /\ \E raw \in RawLeafChoices :
        /\ input' = raw
        /\ IF new_ok(Len(raw))
           THEN /\ status' = "constructed"
                /\ leafs' = new_leafs(hasher, raw)
                /\ levels' = <<new_leafs(hasher, raw)>>
           ELSE /\ status' = "panicked"
                /\ UNCHANGED <<leafs, levels>>
    /\ UNCHANGED <<hasher, commits, root, proof, check>>
    /\ UNCHANGED <<fieldVars, polyVars>>

Commit ==
    /\ status = "constructed"
    /\ commits < MaxCommits
    /\ LET c == commit(hasher, leafs, levels)
       IN  /\ levels' = c.levels
           /\ root' = c.ret
    /\ commits' = commits + 1
    /\ proof' = None
    /\ check' = None
    /\ UNCHANGED <<hasher, input, status, leafs>>
    /\ UNCHANGED <<fieldVars, polyVars>>

Prove ==
    /\ status = "constructed"
    /\ check = None
    /\ \E e \in QueryChoices :
        proof' = [arg |-> e, res |-> prove(hasher, levels, e)]
    /\ UNCHANGED <<hasher, input, status, leafs, levels, commits, root, check>>
    /\ UNCHANGED <<fieldVars, polyVars>>

Verify ==
    /\ status = "constructed"
    /\ commits >= 1
    /\ check = None
    /\ \E index \in IndexChoices, path \in PathChoices, leaf \in LeafChoices :
        check' = [root |-> root, index |-> index, path |-> path, leaf |-> leaf,
                  res |-> verify(hasher, root, index, path, leaf)]
    /\ UNCHANGED <<hasher, input, status, leafs, levels, commits, root, proof>>
    /\ UNCHANGED <<fieldVars, polyVars>>

MerkleNext == New \/ Commit \/ Prove \/ Verify

(***************************************************************************)
(* Polynomial                                                              *)
(***************************************************************************)
\* Polynomial::new.  In this model the coefficients of a polynomial are
\* elements built from the polynomial's own Rc<FiniteField>, as from_slice
\* builds them.
Polynomial_new(coefficients, finite_field) ==
    [coefficients |-> coefficients, finite_field |-> finite_field]

from_slice(coefficients, finite_field) ==
    Polynomial_new([i \in 1..Len(coefficients) |-> element(finite_field, coefficients[i])],
                   finite_field)

\* PartialEq for Polynomial
Polynomial_eq(a, b) ==
    IF ~field_eq(a.finite_field, b.finite_field) THEN FALSE
    ELSE IF Len(a.coefficients) # Len(b.coefficients) THEN FALSE
    ELSE \A i \in 1..Len(a.coefficients) : eq(a.coefficients[i], b.coefficients[i])

RECURSIVE pop_zeros(_, _)
\* while let Some(element) = result.last() { if element == zero { pop } else { break } }
pop_zeros(result, z) ==
    IF Len(result) = 0 THEN result
    ELSE IF eq(result[Len(result)], z)
    THEN pop_zeros(SubSeq(result, 1, Len(result) - 1), z)
    ELSE result

\* the coefficient list add collects before trimming
add_collect(a, b) ==
    LET la == Len(a.coefficients)
        lb == Len(b.coefficients)
        shortest_length == IF la < lb THEN la ELSE lb
    IN  [i \in 1..shortest_length |-> add_ref(a.coefficients[i], b.coefficients[i])]
            \o SubSeq(a.coefficients, shortest_length + 1, la)
            \o SubSeq(b.coefficients, shortest_length + 1, lb)

\* Add for Polynomial
Polynomial_add(a, b) ==
    IF a.finite_field.prime # b.finite_field.prime THEN Panic
    ELSE IF \E i \in 1..Len(add_collect(a, b)) : add_collect(a, b)[i] = Panic THEN Panic
    ELSE Polynomial_new(pop_zeros(add_collect(a, b), zero(a.finite_field)), a.finite_field)

\* Add for &Polynomial
Polynomial_add_ref(a, b) ==
    IF a.finite_field.prime # b.finite_field.prime THEN Panic
    ELSE IF \E i \in 1..Len(add_collect(a, b)) : add_collect(a, b)[i] = Panic THEN Panic
    ELSE Polynomial_new(pop_zeros(add_collect(a, b), zero(a.finite_field)), a.finite_field)

RECURSIVE mul_acc(_, _, _, _)
\* result_coefficients[k] (k from 0) after the outer loop of mul has run over
\* the first i coefficients of a: result_coefficients[i + j] += coef1 * coef2
mul_acc(a, b, k, i) ==
    IF i = 0 THEN zero(a.finite_field)
    ELSE LET prev == mul_acc(a, b, k, i - 1)
             j == k - (i - 1)
         IN  IF 0 <= j /\ j < Len(b.coefficients)
             THEN add_assign(prev, mul_ref(a.coefficients[i], b.coefficients[j + 1]))
             ELSE prev

\* Mul for Polynomial.  len(a) + len(b) - 1 is computed on usize: for two
\* empty operands it underflows, which panics (overflow check) or asks vec!
\* for usize::MAX elements, which panics too (capacity overflow).
Polynomial_mul(a, b) ==
    LET len == Len(a.coefficients) + Len(b.coefficients) - 1
    IN  IF len < 0 THEN Panic
        ELSE IF Len(a.coefficients) > 0 /\ Len(b.coefficients) > 0
                /\ ~field_eq(a.finite_field, b.finite_field) THEN Panic
        ELSE Polynomial_new([k \in 1..len |-> mul_acc(a, b, k - 1, Len(a.coefficients))],
                            a.finite_field)

\* Mul for &Polynomial
Polynomial_mul_ref(a, b) ==
    LET len == Len(a.coefficients) + Len(b.coefficients) - 1
    IN  IF len < 0 THEN Panic
        ELSE IF Len(a.coefficients) > 0 /\ Len(b.coefficients) > 0
                /\ ~field_eq(a.finite_field, b.finite_field) THEN Panic
        ELSE Polynomial_new([k \in 1..len |-> mul_acc(a, b, k - 1, Len(a.coefficients))],
                            a.finite_field)

\* Neg for Polynomial and for &Polynomial
Polynomial_neg(a) ==
    Polynomial_new([i \in 1..Len(a.coefficients) |-> neg(a.coefficients[i])],
                   a.finite_field)

\* Sub for Polynomial
Polynomial_sub(a, b) ==
    IF a.finite_field.prime # b.finite_field.prime THEN Panic
    ELSE Polynomial_add(a, Polynomial_neg(b))

\* Sub for &Polynomial
Polynomial_sub_ref(a, b) ==
    IF a.finite_field.prime # b.finite_field.prime THEN Panic
    ELSE Polynomial_add_ref(a, Polynomial_neg(b))

\* Polynomial::degree; index counts the reversed coefficient list from 0
degree(p) ==
    LET coeff_len == Len(p.coefficients)
        found == { index \in 0..(coeff_len - 1) :
                     ~eq(p.coefficients[coeff_len - index], zero(p.finite_field)) }
    IN  IF coeff_len = 0 THEN -1
        ELSE IF found = {} THEN 0
        ELSE coeff_len - (CHOOSE index \in found : \A other \in found : index <= other)

\* Polynomial::leading_coefficient_index (from 0)
leading_coefficient_index(p) ==
    LET found == { i \in 0..(Len(p.coefficients) - 1) :
                     ~eq(p.coefficients[i + 1], zero(p.finite_field)) }
    IN  IF found = {} THEN 0
        ELSE CHOOSE i \in found : \A other \in found : other <= i

RECURSIVE evaluate_loop(_, _, _, _, _)
\* the for loop of evaluate from coefficient i (from 1) on
evaluate_loop(p, at, i, result, power) ==
    IF i > Len(p.coefficients) THEN result
    ELSE evaluate_loop(p, at, i + 1,
                       add_assign(result, mul_ref(p.coefficients[i], power)),
                       mul_ref(power, at))

\* Polynomial::evaluate
evaluate(p, at) ==
    IF Len(p.coefficients) = 0 THEN zero(p.finite_field)
    ELSE evaluate_loop(p, at, 1, zero(p.finite_field), one(p.finite_field))

RECURSIVE lagrange_value(_, _, _, _, _)
\* value for point i after the inner loop has run over the first j points;
\* a point is <<x, y>>
lagrange_value(points, finite_field, xpoly, i, j) ==
    IF j = 0 THEN Polynomial_new(<<points[i][2]>>, finite_field)
    ELSE LET prev == lagrange_value(points, finite_field, xpoly, i, j - 1)
         IN  IF i = j THEN prev
             ELSE LET basis ==
                        Polynomial_mul(
                            Polynomial_sub_ref(xpoly,
                                Polynomial_new(<<points[j][1]>>, finite_field)),
                            Polynomial_new(
                                <<inverse(sub(points[i][1], points[j][1]))>>,
                                finite_field))
                  IN  Polynomial_mul(prev, basis)

RECURSIVE lagrange_acc(_, _, _, _)
\* acc after the outer loop has run over the first i points
lagrange_acc(points, finite_field, xpoly, i) ==
    IF i = 0 THEN Polynomial_new(<<>>, finite_field)
    ELSE Polynomial_add(lagrange_acc(points, finite_field, xpoly, i - 1),
                        lagrange_value(points, finite_field, xpoly, i, Len(points)))

\* Polynomial::lagrange_interpolation
lagrange_interpolation(points, finite_field) ==
    lagrange_acc(points, finite_field, from_slice(<<0, 1>>, finite_field), Len(points))

\* what Div computes before its loop: Panic, or the initial result_coefficients.
\* dividend.len() - rhs.len() + 1 is computed on usize and underflows when
\* rhs is longer by two or more (overflow check, or vec! capacity overflow);
\* rhs.coefficients[leading_coeff_index_rhs] is out of bounds for an empty rhs.
div_enter(self, rhs) ==
    LET result_len == Len(self.coefficients) - Len(rhs.coefficients) + 1
    IN  IF result_len < 0 THEN Panic
        ELSE IF Len(rhs.coefficients) = 0 THEN Panic
        ELSE [result_coefficients |-> [i \in 1..result_len |-> zero(self.finite_field)]]

\* one iteration of the while loop of Div: Panic (integer division by zero),
\* or the new dividend and result_coefficients
div_iteration(self, rhs, dvd, res) ==
    LET leading_coeff_index_rhs == leading_coefficient_index(rhs)
        leading_coeff_rhs == rhs.coefficients[leading_coeff_index_rhs + 1].element
        leading_coeff_dividend == dvd.coefficients[Len(dvd.coefficients)].element
        leading_quotient == TruncDiv(leading_coeff_dividend, leading_coeff_rhs)
        leading_quotient_index == Len(dvd.coefficients) - Len(rhs.coefficients)
        temp_quotient ==
            [i \in 1..(leading_quotient_index + 1) |->
                IF i = leading_quotient_index + 1
                THEN element(self.finite_field, leading_quotient)
                ELSE zero(self.finite_field)]
    IN  IF leading_coeff_rhs = 0 THEN Panic
        ELSE [ dividend |->
                 Polynomial_sub(dvd,
                     Polynomial_mul_ref(Polynomial_new(temp_quotient, self.finite_field),
                                        rhs)),
               result_coefficients |->
                 [res EXCEPT ![leading_quotient_index + 1] =
                     element(self.finite_field, leading_quotient)] ]

(***************************************************************************)
(* The polynomial calculator: two registers pa and pb holding Polynomials, *)
(* one action per operation.  pa receives the result (pa = pa op pb) when  *)
(* it has at most MaxCoeffs coefficients; plast records the operation, its *)
(* operands and what it returned.  Div runs its while loop one iteration   *)
(* per step: pc is "loop" while the call pa / pb is inside the loop, and   *)
(* dividend, result_coefficients are the loop's variables.                 *)
(***************************************************************************)
\* the field of the polynomials
PolyField == FiniteField_new(20, 5, 2)

\* the slices from_slice is called with
SliceChoices ==
    UNION { [1..n -> (-1)..MaxCoeffValue] : n \in 0..MaxCoeffs }

\* the points <<x, y>> the caller interpolates through: the coefficients of
\* a as the x and those of b as the y, as many as both have
PointsOf(a, b) ==
    LET k == IF Len(a.coefficients) < Len(b.coefficients)
             THEN Len(a.coefficients) ELSE Len(b.coefficients)
    IN  [i \in 1..k |-> <<a.coefficients[i], b.coefficients[i]>>]

\* the x of the points are pairwise different residues
DistinctX(points) ==
    \A i, j \in 1..Len(points) :
        i # j => rem_euclid(points[i][1].element, PolyField.prime)
                    # rem_euclid(points[j][1].element, PolyField.prime)

\* the loop variables of Div outside a call
NoDividend == Polynomial_new(<<>>, PolyField)

PolyInit ==
    /\ pa = from_slice(<<>>, PolyField)
    /\ pb = from_slice(<<>>, PolyField)
    /\ plast = Outcome("from_slice", pa, pa, pa)
    /\ pc = "idle"
    /\ dividend = NoDividend
    /\ result_coefficients = <<>>
    /\ iterations = 0

\* pa = pa op pb: the result goes to pa, or nowhere when the operation panics
\* or the result is longer than MaxCoeffs
PolyStore(res) ==
    /\ pa' = IF res = Panic THEN pa
             ELSE IF Len(res.coefficients) > MaxCoeffs THEN pa
             ELSE res
    /\ pb' = pb
    /\ UNCHANGED <<pc, dividend, result_coefficients, iterations>>
    /\ UNCHANGED <<fieldVars, merkleVars>>

PolyFromSlice ==
    /\ pc = "idle"
    /\ \E c \in SliceChoices, r \in {"pa", "pb"} :
        /\ pa' = IF r = "pa" THEN from_slice(c, PolyField) ELSE pa
        /\ pb' = IF r = "pb" THEN from_slice(c, PolyField) ELSE pb
        /\ plast' = Outcome("from_slice", from_slice(c, PolyField),
                            from_slice(c, PolyField), from_slice(c, PolyField))
    /\ UNCHANGED <<pc, dividend, result_coefficients, iterations>>
    /\ UNCHANGED <<fieldVars, merkleVars>>

PolyAdd ==
    /\ pc = "idle"
    /\ plast' = Outcome("add", pa, pb, Polynomial_add(pa, pb))
    /\ PolyStore(Polynomial_add(pa, pb))

PolySub ==
    /\ pc = "idle"
    /\ plast' = Outcome("sub", pa, pb, Polynomial_sub(pa, pb))
    /\ PolyStore(Polynomial_sub(pa, pb))

PolyMul ==
    /\ pc = "idle"
    /\ plast' = Outcome("mul", pa, pb, Polynomial_mul(pa, pb))
    /\ PolyStore(Polynomial_mul(pa, pb))

PolyNeg ==
    /\ pc = "idle"
    /\ plast' = Outcome("neg", pa, pb, Polynomial_neg(pa))
    /\ PolyStore(Polynomial_neg(pa))

PolyDegree ==
    /\ pc = "idle"
    /\ plast' = Outcome("degree", pa, pb, degree(pa))
    /\ UNCHANGED <<pa, pb, pc, dividend, result_coefficients, iterations>>
    /\ UNCHANGED <<fieldVars, merkleVars>>

PolyInterpolate ==
    /\ pc = "idle"
    /\ Len(PointsOf(pa, pb)) >= 1
    /\ DistinctX(PointsOf(pa, pb))
    /\ plast' = Outcome("lagrange_interpolation", PointsOf(pa, pb), PointsOf(pa, pb),
                        lagrange_interpolation(PointsOf(pa, pb), PolyField))
    /\ PolyStore(lagrange_interpolation(PointsOf(pa, pb), PolyField))

\* pa / pb up to the first test of the while condition
PolyDivEnter ==
    /\ pc = "idle"
    /\ IF div_enter(pa, pb) = Panic
       THEN /\ plast' = Outcome("div", pa, pb, Panic)
            /\ UNCHANGED <<pc, dividend, result_coefficients, iterations>>
       ELSE /\ plast' = Outcome("div_loop", pa, pb, None)
            /\ pc' = "loop"
            /\ dividend' = pa
            /\ result_coefficients' = div_enter(pa, pb).result_coefficients
            /\ iterations' = 0
    /\ UNCHANGED <<pa, pb>>
    /\ UNCHANGED <<fieldVars, merkleVars>>

\* one iteration of the while loop
PolyDivIterate ==
    /\ pc = "loop"
    /\ Len(dividend.coefficients) >= Len(pb.coefficients)
    /\ iterations < MaxIterations
    /\ IF div_iteration(pa, pb, dividend, result_coefficients) = Panic
       THEN /\ plast' = Outcome("div", pa, pb, Panic)
            /\ pc' = "idle"
            /\ dividend' = NoDividend
            /\ result_coefficients' = <<>>
            /\ iterations' = 0
       ELSE /\ dividend' = div_iteration(pa, pb, dividend, result_coefficients).dividend
            /\ result_coefficients' =
                  div_iteration(pa, pb, dividend, result_coefficients).result_coefficients
            /\ iterations' = iterations + 1
            /\ UNCHANGED <<plast, pc>>
    /\ UNCHANGED <<pa, pb>>
    /\ UNCHANGED <<fieldVars, merkleVars>>

\* the while condition is false: Div returns (quotient, remainder)
PolyDivReturn ==
    /\ pc = "loop"
    /\ Len(dividend.coefficients) < Len(pb.coefficients)
    /\ plast' = Outcome("div", pa, pb,
                        [ quotient |-> Polynomial_new(result_coefficients, pa.finite_field),
                          remainder |-> dividend,
                          iterations |-> iterations ])
    /\ pc' = "idle"
    /\ dividend' = NoDividend
    /\ result_coefficients' = <<>>
    /\ iterations' = 0
    /\ UNCHANGED <<pa, pb>>
    /\ UNCHANGED <<fieldVars, merkleVars>>

PolyNext ==
    \/ PolyFromSlice \/ PolyAdd \/ PolySub \/ PolyMul \/ PolyNeg
    \/ PolyDegree \/ PolyInterpolate
    \/ PolyDivEnter \/ PolyDivIterate \/ PolyDivReturn

(***************************************************************************)
(* Specifications                                                          *)
(***************************************************************************)
FieldIdle ==
    /\ x = zero(FiniteField_new(1, 5, 2))
    /\ y = x
    /\ last = Outcome("element", x, x, x)

MerkleIdle ==
    /\ hasher = HasherOf(<<2, 3, 1, 4, 6>>)
    /\ input = <<>>
    /\ status = "start"
    /\ leafs = <<>>
    /\ levels = <<>>
    /\ commits = 0
    /\ root = None
    /\ proof = None
    /\ check = None

PolyIdle ==
    /\ pa = from_slice(<<>>, FiniteField_new(20, 5, 2))
    /\ pb = pa
    /\ plast = Outcome("from_slice", pa, pa, pa)
    /\ pc = "idle"
    /\ dividend = pa
    /\ result_coefficients = <<>>
    /\ iterations = 0

\* the Merkle tree over the Rescue hash
Init == FieldIdle /\ MerkleInit /\ PolyIdle

Next == MerkleNext

Spec == Init /\ [][Next]_vars

\* the field calculator
InitField == FieldInit /\ MerkleIdle /\ PolyIdle

NextField == FieldNext

SpecField == InitField /\ [][NextField]_vars

\* the polynomial calculator
InitPoly == FieldIdle /\ MerkleIdle /\ PolyInit

NextPoly == PolyNext

SpecPoly == InitPoly /\ [][NextPoly]_vars

(***************************************************************************)
(* Properties of the Merkle tree (checked under Spec)                      *)
(***************************************************************************)
IsSome(r) == "some" \in DOMAIN r

RECURSIVE ilog2(_)
ilog2(n) == IF n <= 1 THEN 0 ELSE 1 + ilog2(n \div 2)

IsPowerOfTwo(n) == \E k \in 0..n : n = Shl1(k)

\* the positions (from 1) of level 0 holding an element equal to e
LeafPositions(e) == { i \in 1..Len(levels[1]) : levels[1][i] = e }

\* C1: Merkle round trip.  In a tree over 2^k leaves (k >= 1) committed once,
\* prove of every level-0 entry returns Some(path), and verify(root, i, path,
\* levels[0][i]) with that path and the root commit returned is true.
C1_RoundTrip ==
    (status = "constructed" /\ commits = 1 /\ Len(leafs) >= 2 /\ proof # None
        /\ LeafPositions(proof.arg) # {})
    => /\ IsSome(proof.res)
       /\ (check # None /\ check.path = proof.res.some /\ check.leaf = proof.arg
              /\ check.root = root /\ (check.index + 1) \in LeafPositions(proof.arg))
          => check.res = Ret(TRUE)

\* C2: after new over n = 2^k leaves and one commit there are log2(n) + 1
\* levels, level 0 is the hashed leaves, each next level has half the length
\* with entry m = hash(level[2m] + level[2m+1]), and the last level is the
\* single value commit returned.
C2_LevelStructure ==
    (status = "constructed" /\ commits = 1)
    => /\ Len(levels) = ilog2(Len(input)) + 1
       /\ levels[1] = [i \in 1..Len(input) |-> hash(hasher, input[i])]
       /\ levels[1] = leafs
       /\ \A j \in 1..(Len(levels) - 1) :
            /\ 2 * Len(levels[j + 1]) = Len(levels[j])
            /\ \A m \in 1..Len(levels[j + 1]) :
                 levels[j + 1][m]
                    = hash(hasher, add_ref(levels[j][2 * m - 1], levels[j][2 * m]))
       /\ Len(levels[Len(levels)]) = 1
       /\ levels[Len(levels)][1] = root

\* a tree of four leaves committed once
C2_Witness == status = "constructed" /\ commits = 1 /\ Len(input) = 4 /\ Len(levels) = 3

\* C3: commit is idempotent: every commit after the first returns the same
\* root and leaves leafs and levels as they were after the first.
C3_CommitIdempotent ==
    [][(commits >= 1 /\ commits' = commits + 1)
          => (root' = root /\ levels' = levels /\ leafs' = leafs)]_vars

\* C4: on a committed tree of any valid leaf count, prove(v) returns None when
\* v equals no level-0 entry and Some(path) when it equals one.
C4_ProveNotFound ==
    (status = "constructed" /\ commits >= 1 /\ proof # None)
    => IF \E i \in 1..Len(levels[1]) : eq(levels[1][i], proof.arg)
       THEN IsSome(proof.res)
       ELSE proof.res = None

\* the hashers that have no collision on the residues of their field
CollisionFree ==
    { h \in HasherChoices :
        Cardinality({ hash(h, element(HasherField, n)) : n \in 0..(HasherField.prime - 1) })
            = HasherField.prime }

\* C5: verify binds the leaf to the index: on a committed tree with root r and
\* a collision-free hasher, verify(r, index, path, leaf) is true only if leaf
\* is the level-0 entry at position index.
C5_VerifyBindsIndex ==
    (status = "constructed" /\ commits >= 1
        /\ check # None /\ check.root = root /\ check.res = Ret(TRUE)
        /\ hasher \in CollisionFree)
    => /\ check.index < Len(levels[1])
       /\ eq(check.leaf, levels[1][check.index + 1])

Canonical(e) == 0 <= e.element /\ e.element < e.finite_field.prime

BinaryOps ==
    { "add", "add_ref", "add_assign", "sub", "sub_ref", "sub_assign",
      "mul", "mul_ref", "div", "div_ref" }

UnaryOps == { "neg", "inverse" }

\* C7: canonical-representative invariant: the result of add, sub, mul, div,
\* neg, inverse, += and -= on operands stored in [0, prime) is stored in
\* [0, prime).
C7_CanonicalResult ==
    /\ (last.op \in BinaryOps /\ last.res # Panic
           /\ Canonical(last.a) /\ Canonical(last.b))
       => Canonical(last.res)
    /\ (last.op \in UnaryOps /\ Canonical(last.a)) => Canonical(last.res)

\* C8: a == b holds iff the fields have equal primes and the stored values
\* are congruent modulo the prime, whatever the stored representation.
C8_Equality ==
    last.op = "eq"
    => (last.res <=>
          /\ last.a.finite_field.prime = last.b.finite_field.prime
          /\ rem_euclid(last.a.element, last.a.finite_field.prime)
                = rem_euclid(last.b.element, last.a.finite_field.prime))

RECURSIVE ModExp(_, _, _)
\* b^n mod p
ModExp(b, n, p) == IF n = 0 THEN 1 % p ELSE (rem_euclid(b, p) * ModExp(b, n - 1, p)) % p

\* C9: for e of the same prime field with e.value >= 0, b.pow(e) is
\* b^(e.value) mod prime.
C9_Pow ==
    (last.op = "pow" /\ last.a.finite_field.prime = last.b.finite_field.prime
        /\ last.b.element >= 0)
    => rem_euclid(last.res.element, last.a.finite_field.prime)
          = ModExp(last.a.element, last.b.element, last.a.finite_field.prime)

\* C10: for every a not congruent to 0, a * a.inverse() == one, and
\* extended_euclidean(i, prime) returns gcd 1 with i*x + prime*y = 1 for every
\* i in [1, prime).
C10_Inverse ==
    /\ (last.op = "inverse"
           /\ rem_euclid(last.a.element, last.a.finite_field.prime) # 0)
       => eq(mul(last.a, last.res), one(last.a.finite_field))
    /\ \A i \in 1..(last.a.finite_field.prime - 1) :
          LET r == extended_euclidean(i, last.a.finite_field.prime)
          IN  r[1] = 1 /\ i * r[2] + last.a.finite_field.prime * r[3] = 1

\* C11: field mismatch is always rejected: every binary operation (+, -, *, /,
\* += and -=, owned and by reference) on operands whose fields have different
\* primes fails instead of returning a value.
C11_FieldMismatch ==
    (last.op \in BinaryOps
        /\ last.a.finite_field.prime # last.b.finite_field.prime)
    => last.res = Panic

(***************************************************************************)
(* Properties of the hash and of prove (checked under Spec)                *)
(***************************************************************************)
RECURSIVE ReferenceDot(_, _, _, _)
\* row i of mds_matrix times the state, over the first j columns, as integers
ReferenceDot(h, state, i, j) ==
    IF j = 0 THEN 0
    ELSE ReferenceDot(h, state, i, j - 1)
            + rem_euclid(h.mds_matrix[i][j].element, h.finite_field.prime) * state[j]

\* state multiplied by mds_matrix, round constants added, reduced mod prime
ReferenceRound(h, state) ==
    LET n == h.rate + h.capacity
    IN  [i \in 1..n |->
            rem_euclid(ReferenceDot(h, state, i, n)
                          + h.constants[2 * h.rate * n + i].element,
                       h.finite_field.prime)]

\* the pipeline the claim describes, on residues
ReferencePipeline(h, v) ==
    LET p == h.finite_field.prime
        n == h.rate + h.capacity
        s0 == [i \in 1..n |-> IF i = 1 THEN rem_euclid(v.element, p) ELSE 0]
        s1 == [i \in 1..n |-> ModExp(s0[i], value(h.alpha), p)]
        s2 == ReferenceRound(h, s1)
        s3 == [i \in 1..n |-> ModExp(s2[i], value(h.alpha_inv), p)]
        s4 == ReferenceRound(h, s3)
    IN  s4[1]

\* C15: hash(value) is state[0] of the reference pipeline: state [value, 0,
\* ..] of length rate + capacity, S-box x^alpha on every entry, mds_matrix
\* and round constants, inverse S-box x^alpha_inv on every entry, mds_matrix
\* and round constants again.  Checked on every leaf new has hashed.
C15_HashPipeline ==
    (status = "constructed")
    => \A i \in 1..Len(input) :
          /\ leafs[i] # Panic
          /\ rem_euclid(leafs[i].element, hasher.finite_field.prime)
                = ReferencePipeline(hasher, input[i])

\* n XOR 1
Xor1(n) == IF n % 2 = 0 THEN n + 1 ELSE n - 1

RECURSIVE Shr(_, _)
\* n >> j
Shr(n, j) == IF j = 0 THEN n ELSE Shr(n \div 2, j - 1)

\* C16: on a tree over 2^k leaves committed once, the path prove returns for
\* the level-0 entry at index i is the k siblings, one per level below the
\* root: entry j is levels[j][(i >> j) XOR 1], so the path has length k.
C16_ProvePath ==
    (status = "constructed" /\ commits = 1 /\ proof # None
        /\ LeafPositions(proof.arg) # {})
    => /\ IsSome(proof.res)
       /\ \E i \in LeafPositions(proof.arg) :
            /\ Len(proof.res.some) = Len(levels) - 1
            /\ \A j \in 0..(Len(levels) - 2) :
                 proof.res.some[j + 1] = levels[j + 1][Xor1(Shr(i - 1, j)) + 1]

(***************************************************************************)
(* Properties of the polynomial ring (checked under SpecPoly)              *)
(***************************************************************************)
\* no trailing zero coefficient; the zero polynomial is the empty list
PolyCanonical(p) ==
    \/ Len(p.coefficients) = 0
    \/ ~eq(p.coefficients[Len(p.coefficients)], zero(p.finite_field))

\* C12: polynomial division law: for canonical P and D with D non-zero
\* (non-monic D and D of higher degree than P included), P / D returns
\* (Q, R) with Q*D + R == P and degree(R) < degree(D).
C12_DivisionLaw ==
    (plast.op = "div" /\ PolyCanonical(plast.a) /\ PolyCanonical(plast.b)
        /\ Len(plast.b.coefficients) > 0)
    => /\ plast.res # Panic
       /\ Polynomial_eq(
              Polynomial_add(Polynomial_mul(plast.res.quotient, plast.b),
                             plast.res.remainder),
              plast.a)
       /\ degree(plast.res.remainder) < degree(plast.b)

\* C13: degree() returns -1 for every polynomial without a non-zero
\* coefficient, empty or all zeros, and never -1 for one with a non-zero
\* coefficient.
C13_DegreeOfZero ==
    plast.op = "degree"
    => (plast.res = -1
          <=> \A i \in 1..Len(plast.a.coefficients) :
                 eq(plast.a.coefficients[i], zero(plast.a.finite_field)))

\* C14: interpolation exactness: for k >= 1 points with pairwise distinct x,
\* lagrange_interpolation returns a polynomial p with at most k coefficients
\* and p.evaluate(x_i) == y_i for every i.
C14_Interpolation ==
    plast.op = "lagrange_interpolation"
    => /\ plast.res # Panic
       /\ Len(plast.res.coefficients) <= Len(plast.a)
       /\ \A i \in 1..Len(plast.a) :
             eq(evaluate(plast.res, plast.a[i][1]), plast.a[i][2])

\* C17: canonical-trimming invariant: the result of add, sub and mul on
\* canonical polynomials is canonical; mul returns len(a) + len(b) - 1
\* coefficients for non-empty operands and the empty polynomial when either
\* operand is empty.
C17_CanonicalTrimming ==
    (plast.op \in {"add", "sub", "mul"}
        /\ PolyCanonical(plast.a) /\ PolyCanonical(plast.b))
    => /\ plast.res # Panic
       /\ PolyCanonical(plast.res)
       /\ plast.op = "mul"
          => Len(plast.res.coefficients)
                = IF Len(plast.a.coefficients) = 0 \/ Len(plast.b.coefficients) = 0
                  THEN 0
                  ELSE Len(plast.a.coefficients) + Len(plast.b.coefficients) - 1

\* C18: division terminates: for a canonical dividend and a canonical
\* non-zero divisor with len(dividend) >= len(divisor), every iteration of
\* the loop of Div strictly shortens the remainder's coefficient list, so
\* there are at most len(dividend) - len(divisor) + 1 iterations.
C18_DivTerminates ==
    [][(pc = "loop" /\ iterations' = iterations + 1
            /\ PolyCanonical(pa) /\ PolyCanonical(pb)
            /\ Len(pb.coefficients) > 0
            /\ Len(pa.coefficients) >= Len(pb.coefficients))
          => /\ Len(dividend'.coefficients) < Len(dividend.coefficients)
             /\ iterations' <= Len(pa.coefficients) - Len(pb.coefficients) + 1]_vars

====
